---- MODULE Spec2Model ----
(***************************************************************************)
(* protoc-gen-jsonschema: the descriptor -> JSON-Schema translation of     *)
(* main.go (package registry, type converter, file converter, session      *)
(* driver and configuration resolution).                                   *)
(*                                                                         *)
(* Strings that the code splits or matches by prefix/suffix (package       *)
(* names, type names, message and enum names) are sequences of text        *)
(* fragments whose concatenation is the Go string; "." is always a         *)
(* fragment of its own.  Other strings are plain TLA+ strings.             *)
(***************************************************************************)
EXTENDS Integers, Sequences, FiniteSets, TLC

VARIABLES
    allowNullValues,              \* main.go:38
    disallowEnumOneOf,            \* main.go:39
    disallowOneOf,                \* main.go:40
    disallowAdditionalProperties, \* main.go:41
    disallowBigIntsAsStrings,     \* main.go:42
    globalPkg,                    \* main.go:44  the package tree, node id -> node
    msgs,                         \* the message descriptors (shared, mutable) by id
    protoFile,                    \* req.ProtoFile, the descriptor forest
    fileToGenerate,               \* req.FileToGenerate, the target list
    parameter,                    \* commandLineParameter: the words of req.Parameter still to range over
    enumDescriptors,              \* convert: the gathered enum descriptors
    res,                          \* convert: the CodeGeneratorResponse
    idx,                          \* convert: position of the running loop in the forest
    converted,                    \* the files handed to convertFile so far, in call order
    pc,                           \* position of the process
    call,                         \* the converter call made (converter specification)
    ret                           \* what that call returned

vars == <<allowNullValues, disallowEnumOneOf, disallowOneOf,
          disallowAdditionalProperties, disallowBigIntsAsStrings,
          globalPkg, msgs, protoFile, fileToGenerate, parameter,
          enumDescriptors, res, idx, converted, pc, call, ret>>

flags == <<allowNullValues, disallowEnumOneOf, disallowOneOf,
           disallowAdditionalProperties, disallowBigIntsAsStrings>>

-----------------------------------------------------------------------------
(* Bounds of the model *)

\* longest target list of a request
MaxTargets == 2
\* longest parameter string, in comma-separated words
MaxParams == 2
\* calls of convertMessageType nested deeper than this overflow the stack
MaxDepth == 4

-----------------------------------------------------------------------------
(* strings *)

Dot == "."
Comma == ","

\* strings.HasPrefix
HasPrefix(s, p) == Len(s) >= Len(p) /\ SubSeq(s, 1, Len(p)) = p

\* strings.HasSuffix
HasSuffix(s, p) == Len(s) >= Len(p) /\ SubSeq(s, Len(s) - Len(p) + 1, Len(s)) = p

\* position of the first sep in s, 0 when there is none
Index(s, sep) ==
    IF \E i \in 1..Len(s) : s[i] = sep
    THEN CHOOSE i \in 1..Len(s) : s[i] = sep /\ \A j \in 1..(i - 1) : s[j] # sep
    ELSE 0

\* strings.Split(s, sep): the empty string splits into one empty component
RECURSIVE Split(_, _)
Split(s, sep) ==
    IF Index(s, sep) = 0 THEN <<s>>
    ELSE <<SubSeq(s, 1, Index(s, sep) - 1)>>
         \o Split(SubSeq(s, Index(s, sep) + 1, Len(s)), sep)

\* strings.SplitN(s, sep, 2)
SplitN2(s, sep) ==
    IF Index(s, sep) = 0 THEN <<s>>
    ELSE <<SubSeq(s, 1, Index(s, sep) - 1), SubSeq(s, Index(s, sep) + 1, Len(s))>>

\* m[k] = v on a Go map
MapSet(m, k, v) == [x \in (DOMAIN m) \cup {k} |-> IF x = k THEN v ELSE m[x]]

EmptyMap == <<>>

-----------------------------------------------------------------------------
(* descriptors *)

TYPE_DOUBLE == "TYPE_DOUBLE"
TYPE_FLOAT == "TYPE_FLOAT"
TYPE_INT64 == "TYPE_INT64"
TYPE_UINT64 == "TYPE_UINT64"
TYPE_INT32 == "TYPE_INT32"
TYPE_FIXED64 == "TYPE_FIXED64"
TYPE_FIXED32 == "TYPE_FIXED32"
TYPE_BOOL == "TYPE_BOOL"
TYPE_STRING == "TYPE_STRING"
TYPE_GROUP == "TYPE_GROUP"
TYPE_MESSAGE == "TYPE_MESSAGE"
TYPE_BYTES == "TYPE_BYTES"
TYPE_UINT32 == "TYPE_UINT32"
TYPE_ENUM == "TYPE_ENUM"
TYPE_SFIXED32 == "TYPE_SFIXED32"
TYPE_SFIXED64 == "TYPE_SFIXED64"
TYPE_SINT32 == "TYPE_SINT32"
TYPE_SINT64 == "TYPE_SINT64"
\* a FieldDescriptorProto_Type outside the declared values
TYPE_UNKNOWN == "TYPE_UNKNOWN"

FloatKinds == {TYPE_DOUBLE, TYPE_FLOAT}
Int32Kinds == {TYPE_INT32, TYPE_UINT32, TYPE_FIXED32, TYPE_SFIXED32, TYPE_SINT32}
Int64Kinds == {TYPE_INT64, TYPE_UINT64, TYPE_FIXED64, TYPE_SFIXED64, TYPE_SINT64}
StringKinds == {TYPE_STRING, TYPE_BYTES}
BoolKinds == {TYPE_BOOL}
EnumKinds == {TYPE_ENUM}
MessageKinds == {TYPE_GROUP, TYPE_MESSAGE}
ScalarKinds == FloatKinds \cup Int32Kinds \cup Int64Kinds \cup StringKinds \cup BoolKinds
Kinds == ScalarKinds \cup EnumKinds \cup MessageKinds \cup {TYPE_UNKNOWN}

LABEL_OPTIONAL == "LABEL_OPTIONAL"
LABEL_REQUIRED == "LABEL_REQUIRED"
LABEL_REPEATED == "LABEL_REPEATED"
Labels == {LABEL_OPTIONAL, LABEL_REQUIRED, LABEL_REPEATED}

\* gojsonschema.TYPE_*
TYPE_ARRAY == "array"
TYPE_BOOLEAN == "boolean"
TYPE_INTEGER == "integer"
TYPE_NUMBER == "number"
TYPE_NULL == "null"
TYPE_OBJECT == "object"
TYPE_STRING_JSON == "string"

\* jsonschema.Version
Version == "http://json-schema.org/draft-04/schema#"

TimestampName == <<Dot, "google", Dot, "protobuf", Dot, "Timestamp">>

\* a FieldDescriptorProto
Field(name, type, typeName, label) ==
    [name |-> name, jsonName |-> name, type |-> type, typeName |-> typeName, label |-> label]

\* an EnumValueDescriptorProto
EnumValue(name, number) == [name |-> name, number |-> number]

\* an EnumDescriptorProto
Enum(name, value) == [name |-> name, value |-> value]

\* a DescriptorProto; nestedType holds the ids of the nested descriptors
Message(name, field, nestedType, enumType) ==
    [name |-> name, field |-> field, nestedType |-> nestedType, enumType |-> enumType]

\* a FileDescriptorProto; messageType holds the ids of the top-level messages
File(name, package, messageType, enumType) ==
    [name |-> name, package |-> package, messageType |-> messageType, enumType |-> enumType]

-----------------------------------------------------------------------------
(* Package registry *)

\* a *ProtoPackage is the id of a node of the tree; the id of a node is its name
RootPkg == <<>>
NilPkg == <<"<nil>">>
NilDesc == "<nil>"

\* main.go:44-49 and 100-105
NewPackage(name, parent) ==
    [name |-> name, parent |-> parent, children |-> EmptyMap, types |-> EmptyMap]

\* the tree before any registration
EmptyTree == (RootPkg :> NewPackage(<<>>, NilPkg))

\* the loop of registerType: walks and creates the nodes, returns the tree and
\* the node reached
RECURSIVE registerWalk(_, _, _)
registerWalk(tree, pkg, nodes) ==
    IF nodes = <<>> THEN [tree |-> tree, pkg |-> pkg]
    ELSE LET node == Head(nodes) IN
         IF pkg = RootPkg /\ node = <<>>
         THEN registerWalk(tree, pkg, Tail(nodes))
         ELSE IF node \in DOMAIN tree[pkg].children
         THEN registerWalk(tree, tree[pkg].children[node], Tail(nodes))
         ELSE LET child == tree[pkg].name \o <<Dot>> \o node
                  grown == (child :> NewPackage(child, pkg))
                           @@ [tree EXCEPT ![pkg].children = MapSet(@, node, child)]
              IN registerWalk(grown, child, Tail(nodes))

\* registerType(pkgName, msg): heap gives msg its name.  A nil pkgName and an
\* empty one both leave pkg at the root.
registerType(tree, heap, pkgName, msg) ==
    LET w == registerWalk(tree, RootPkg, Split(pkgName, Dot))
    IN [w.tree EXCEPT ![w.pkg].types = MapSet(@, heap[msg].name, msg)]

NotFound == [ok |-> FALSE, desc |-> NilDesc]
Found(desc) == [ok |-> TRUE, desc |-> desc]

\* the first nested type of desc named component, 0 when there is none
NestedIndex(heap, desc, component) ==
    LET hits == {i \in 1..Len(heap[desc].nestedType) :
                    heap[heap[desc].nestedType[i]].name = component}
    IN IF hits = {} THEN 0 ELSE CHOOSE i \in hits : \A j \in hits : i <= j

RECURSIVE nestedLoop(_, _, _)
nestedLoop(heap, desc, components) ==
    IF components = <<>> THEN Found(desc)
    ELSE IF NestedIndex(heap, desc, Head(components)) = 0 THEN NotFound
    ELSE nestedLoop(heap,
                    heap[desc].nestedType[NestedIndex(heap, desc, Head(components))],
                    Tail(components))

relativelyLookupNestedType(heap, desc, name) == nestedLoop(heap, desc, Split(name, Dot))

RECURSIVE relativelyLookupType(_, _, _, _)
relativelyLookupType(tree, heap, pkg, name) ==
    LET components == SplitN2(name, Dot) IN
    IF Len(components) = 1
    THEN IF components[1] \in DOMAIN tree[pkg].types
         THEN Found(tree[pkg].types[components[1]])
         ELSE NotFound
    ELSE IF components[1] \in DOMAIN tree[pkg].children
    THEN relativelyLookupType(tree, heap, tree[pkg].children[components[1]], components[2])
    ELSE IF components[1] \in DOMAIN tree[pkg].types
    THEN relativelyLookupNestedType(heap, tree[pkg].types[components[1]], components[2])
    ELSE NotFound

\* lookupUp that tries pkg and none of its ancestors
lookupUpContextOnly(tree, heap, pkg, name) ==
    IF pkg = NilPkg THEN NotFound ELSE relativelyLookupType(tree, heap, pkg, name)

\* the loop of lookupType: pkg, then its ancestors
RECURSIVE lookupUp(_, _, _, _)
lookupStep(tree, heap, pkg, name, found) ==
    IF found.ok THEN found ELSE lookupUp(tree, heap, tree[pkg].parent, name)

lookupUp(tree, heap, pkg, name) ==
    IF pkg = NilPkg THEN NotFound
    ELSE lookupStep(tree, heap, pkg, name, relativelyLookupType(tree, heap, pkg, name))

lookupType(tree, heap, pkg, name) ==
    IF HasPrefix(name, <<Dot>>)
    THEN relativelyLookupType(tree, heap, RootPkg, SubSeq(name, 2, Len(name)))
    ELSE lookupUp(tree, heap, pkg, name)

RECURSIVE packageLoop(_, _, _)
packageLoop(tree, pkg, components) ==
    IF components = <<>> THEN [ok |-> TRUE, pkg |-> pkg]
    ELSE IF Head(components) \in DOMAIN tree[pkg].children
    THEN packageLoop(tree, tree[pkg].children[Head(components)], Tail(components))
    ELSE [ok |-> FALSE, pkg |-> NilPkg]

relativelyLookupPackage(tree, pkg, name) == packageLoop(tree, pkg, Split(name, Dot))

-----------------------------------------------------------------------------
(* Type converter *)

\* the zero jsonschema.Type.  oneOf holds the Type of each member (the members
\* the code builds carry nothing else); items holds zero or one node.
NewType ==
    [type |-> "", oneOf |-> <<>>, enum |-> <<>>, items |-> <<>>,
     properties |-> EmptyMap, additionalProperties |-> "", format |-> "",
     version |-> ""]

\* the two kinds of value of a jsonschema.Type's Enum list
NameLiteral(name) == [name |-> name]
NumberLiteral(number) == [number |-> number]

allowEnumOneOf == ~disallowEnumOneOf
allowOneOf == ~disallowOneOf

NoError == ""
ErrNoSuchMessageType == "no such message type"
ErrUnrecognizedFieldType == "unrecognized field type"
ErrNoSuchPackage == "no such package found"
\* not an error value: the goroutine stack is exhausted and the process dies
StackOverflow == "stack overflow"

\* convertField, cases DOUBLE and FLOAT
FloatType ==
    IF allowNullValues /\ allowOneOf
    THEN [NewType EXCEPT !.oneOf = <<TYPE_NULL, TYPE_NUMBER>>]
    ELSE [NewType EXCEPT !.type = TYPE_NUMBER]

\* convertField, the 32-bit integer cases
Int32Type ==
    IF allowNullValues /\ allowOneOf
    THEN [NewType EXCEPT !.oneOf = <<TYPE_NULL, TYPE_INTEGER>>]
    ELSE [NewType EXCEPT !.type = TYPE_INTEGER]

\* Int64Type without the test of allowOneOf
Int64TypeAlwaysUnion ==
    [NewType EXCEPT !.oneOf =
        <<TYPE_INTEGER>>
        \o (IF ~disallowBigIntsAsStrings THEN <<TYPE_STRING_JSON>> ELSE <<>>)
        \o (IF allowNullValues THEN <<TYPE_NULL>> ELSE <<>>)]

\* Int64Type written as the 32-bit cases are
Int64TypeLikeInt32 ==
    IF allowNullValues /\ allowOneOf
    THEN [NewType EXCEPT !.oneOf = <<TYPE_NULL, TYPE_INTEGER>>]
    ELSE [NewType EXCEPT !.type = TYPE_INTEGER]

\* convertField, the 64-bit integer cases
Int64Type ==
    IF allowOneOf
    THEN [NewType EXCEPT !.oneOf =
            <<TYPE_INTEGER>>
            \o (IF ~disallowBigIntsAsStrings THEN <<TYPE_STRING_JSON>> ELSE <<>>)
            \o (IF allowNullValues THEN <<TYPE_NULL>> ELSE <<>>)]
    ELSE [NewType EXCEPT !.type = TYPE_INTEGER]

\* StringType without the nullable union
StringTypeNeverNull == [NewType EXCEPT !.type = TYPE_STRING_JSON]

\* convertField, cases STRING and BYTES
StringType ==
    IF allowNullValues /\ allowOneOf
    THEN [NewType EXCEPT !.oneOf = <<TYPE_NULL, TYPE_STRING_JSON>>]
    ELSE [NewType EXCEPT !.type = TYPE_STRING_JSON]

\* convertField, case BOOL
BoolType ==
    IF allowNullValues /\ allowOneOf
    THEN [NewType EXCEPT !.oneOf = <<TYPE_NULL, TYPE_BOOLEAN>>]
    ELSE [NewType EXCEPT !.type = TYPE_BOOLEAN]

\* convertField, case ENUM: the representation
EnumRepresentation ==
    IF allowEnumOneOf /\ allowOneOf
    THEN [NewType EXCEPT !.oneOf =
            <<TYPE_STRING_JSON, TYPE_INTEGER>>
            \o (IF allowNullValues THEN <<TYPE_NULL>> ELSE <<>>)]
    ELSE [NewType EXCEPT !.type = TYPE_STRING_JSON]

\* the values of one enum descriptor as the code appends them to an Enum list
RECURSIVE EnumLiterals(_, _)
EnumLiterals(value, withNumber) ==
    IF value = <<>> THEN <<>>
    ELSE <<NameLiteral(Head(value).name)>>
         \o (IF withNumber THEN <<NumberLiteral(Head(value).number)>> ELSE <<>>)
         \o EnumLiterals(Tail(value), withNumber)

\* MatchingEnum without the foundEnum test: the last match wins
MatchingEnumLast(typeName, enumType) ==
    LET hits == {i \in 1..Len(enumType) : HasSuffix(typeName, enumType[i].name)}
    IN IF hits = {} THEN 0 ELSE CHOOSE i \in hits : \A j \in hits : i >= j

\* the enum descriptors of enumType the loop of convertField does not skip:
\* the first whose name is a suffix of typeName
MatchingEnum(typeName, enumType) ==
    LET hits == {i \in 1..Len(enumType) : HasSuffix(typeName, enumType[i].name)}
    IN IF hits = {} THEN 0 ELSE CHOOSE i \in hits : \A j \in hits : i <= j

\* convertField, case ENUM
EnumFieldType(desc, enumType) ==
    [EnumRepresentation EXCEPT !.enum =
        IF MatchingEnum(desc.typeName, enumType) = 0 THEN <<>>
        ELSE EnumLiterals(enumType[MatchingEnum(desc.typeName, enumType)].value,
                          allowEnumOneOf)]

\* MessageFieldType that does not look at the label
MessageFieldTypeAnyLabel(desc) ==
    IF desc.typeName = TimestampName
    THEN [NewType EXCEPT !.type = TYPE_STRING_JSON, !.format = "date-time"]
    ELSE [NewType EXCEPT
            !.type = TYPE_OBJECT,
            !.additionalProperties =
                IF disallowAdditionalProperties THEN "false" ELSE "true"]

\* convertField, cases GROUP and MESSAGE
MessageFieldType(desc) ==
    IF desc.typeName = TimestampName
    THEN [NewType EXCEPT !.type = TYPE_STRING_JSON, !.format = "date-time"]
    ELSE [NewType EXCEPT
            !.type = TYPE_OBJECT,
            !.additionalProperties =
                IF disallowAdditionalProperties THEN "false"
                ELSE IF desc.label = LABEL_OPTIONAL THEN "true"
                ELSE IF desc.label = LABEL_REQUIRED THEN "false"
                ELSE ""]

\* convertField, the switch on desc.GetType(); the default case is an error
RecognizedKind(desc) == desc.type \in Kinds \ {TYPE_UNKNOWN}

BaseType(desc, enumType) ==
    IF desc.type \in FloatKinds THEN FloatType
    ELSE IF desc.type \in Int32Kinds THEN Int32Type
    ELSE IF desc.type \in Int64Kinds THEN Int64Type
    ELSE IF desc.type \in StringKinds THEN StringType
    ELSE IF desc.type \in EnumKinds THEN EnumFieldType(desc, enumType)
    ELSE IF desc.type \in BoolKinds THEN BoolType
    ELSE MessageFieldType(desc)

\* ItemsType that copies the type of a node without enum list, not its union
ItemsTypeWithoutUnion(t) ==
    IF Len(t.enum) > 0
    THEN IF allowEnumOneOf /\ allowOneOf
         THEN [NewType EXCEPT !.enum = t.enum, !.oneOf = t.oneOf]
         ELSE [NewType EXCEPT !.enum = t.enum, !.type = t.type]
    ELSE [NewType EXCEPT !.type = t.type]

\* convertField, "Recurse array of primitive types": the items node
ItemsType(t) ==
    IF Len(t.enum) > 0
    THEN IF allowEnumOneOf /\ allowOneOf
         THEN [NewType EXCEPT !.enum = t.enum, !.oneOf = t.oneOf]
         ELSE [NewType EXCEPT !.enum = t.enum, !.type = t.type]
    ELSE [NewType EXCEPT !.type = t.type, !.oneOf = t.oneOf]

\* convertField, "Recurse array of primitive types": the node returned
ArrayType(t) ==
    IF allowNullValues /\ allowOneOf
    THEN [t EXCEPT !.items = <<ItemsType(t)>>, !.enum = <<>>,
                   !.oneOf = <<TYPE_NULL, TYPE_ARRAY>>]
    ELSE [t EXCEPT !.items = <<ItemsType(t)>>, !.enum = <<>>,
                   !.type = TYPE_ARRAY, !.oneOf = <<>>]

\* convertField, "Optionally allow NULL values" of a nested object or array of objects
NullableObject(t) ==
    IF allowNullValues /\ allowOneOf
    THEN [t EXCEPT !.oneOf = <<TYPE_NULL, t.type>>, !.type = ""]
    ELSE t

\* convertField: the enums of msg are added to recordType when it has none
Enrich(heap, recordType, msg) ==
    IF Len(heap[recordType].enumType) = 0
    THEN [heap EXCEPT ![recordType].enumType = @ \o heap[msg].enumType]
    ELSE heap

\* MessageRoot that leaves additionalProperties unset when the flag is off
MessageRootUnset ==
    [(IF allowNullValues /\ allowOneOf
      THEN [NewType EXCEPT !.oneOf = <<TYPE_NULL, TYPE_OBJECT>>]
      ELSE [NewType EXCEPT !.type = TYPE_OBJECT])
     EXCEPT !.version = Version,
            !.additionalProperties =
                IF disallowAdditionalProperties THEN "false" ELSE ""]

\* convertMessageType: the node before the fields are converted
MessageRoot ==
    [(IF allowNullValues /\ allowOneOf
      THEN [NewType EXCEPT !.oneOf = <<TYPE_NULL, TYPE_OBJECT>>]
      ELSE [NewType EXCEPT !.type = TYPE_OBJECT])
     EXCEPT !.version = Version,
            !.additionalProperties =
                IF disallowAdditionalProperties THEN "false" ELSE "true"]

\* A conversion returns the node, the error and the descriptors as it leaves them.
Returned(node, err, heap) == [node |-> node, err |-> err, heap |-> heap]

\* convertField, "Recurse nested objects": the node built from the converted
\* record type
ObjectType(desc, base, node) ==
    NullableObject(
        IF desc.label = LABEL_REPEATED
        THEN [base EXCEPT !.items = <<node>>, !.type = TYPE_ARRAY]
        ELSE [base EXCEPT !.properties = node.properties])

\* convertField, "Recurse nested objects": what is returned once
\* convertMessageType has returned recursed
ObjectReturned(desc, base, recursed) ==
    IF recursed.err # NoError
    THEN Returned(NewType, recursed.err, recursed.heap)
    ELSE Returned(ObjectType(desc, base, recursed.node), NoError, recursed.heap)

\* convertMessageType, the loop: the result so far after the field fieldDesc
\* was converted to recursed
FieldAdded(so, fieldDesc, recursed) ==
    IF recursed.err # NoError
    THEN Returned(so.node, recursed.err, recursed.heap)
    ELSE Returned([so.node EXCEPT !.properties =
                      MapSet(@, fieldDesc.jsonName, recursed.node)],
                  NoError, recursed.heap)

RECURSIVE convertMessageType(_, _, _, _)
RECURSIVE convertFields(_, _, _, _, _)

\* convertField, "Recurse nested objects": found is what lookupType returned
RecurseObject(curPkg, desc, msg, heap, depth, base, found) ==
    IF ~found.ok THEN Returned(NewType, ErrNoSuchMessageType, heap)
    ELSE ObjectReturned(desc, base,
             convertMessageType(curPkg, found.desc,
                                Enrich(heap, found.desc, msg), depth + 1))

\* convertField after the switch has made base
AfterSwitch(curPkg, desc, msg, heap, depth, base) ==
    IF desc.label = LABEL_REPEATED /\ base.type # TYPE_OBJECT
    THEN Returned(ArrayType(base), NoError, heap)
    ELSE IF base.type # TYPE_OBJECT THEN Returned(base, NoError, heap)
    ELSE RecurseObject(curPkg, desc, msg, heap, depth, base,
                       lookupType(globalPkg, heap, curPkg, desc.typeName))

\* convertField(curPkg, desc, msg) on the descriptors heap, called from a
\* convertMessageType that is depth calls deep
convertField(curPkg, desc, msg, heap, depth) ==
    IF ~RecognizedKind(desc) THEN Returned(NewType, ErrUnrecognizedFieldType, heap)
    ELSE AfterSwitch(curPkg, desc, msg, heap, depth,
                     BaseType(desc, heap[msg].enumType))

\* the loop of convertMessageType from field i on; so is the result so far
convertFields(curPkg, msg, i, so, depth) ==
    IF i > Len(so.heap[msg].field) \/ so.err # NoError THEN so
    ELSE convertFields(curPkg, msg, i + 1,
             FieldAdded(so, so.heap[msg].field[i],
                        convertField(curPkg, so.heap[msg].field[i], msg, so.heap, depth)),
             depth)

convertMessageType(curPkg, msg, heap, depth) ==
    IF depth > MaxDepth THEN Returned(NewType, StackOverflow, heap)
    ELSE convertFields(curPkg, msg, 1, Returned(MessageRoot, NoError, heap), depth)

\* convertEnumType: the representation
StandaloneEnumRepresentation ==
    IF allowEnumOneOf /\ allowOneOf
    THEN [NewType EXCEPT !.version = Version,
                         !.oneOf = <<TYPE_STRING_JSON, TYPE_INTEGER>>]
    ELSE [NewType EXCEPT !.version = Version, !.type = TYPE_STRING_JSON]

convertEnumType(enum) ==
    [StandaloneEnumRepresentation EXCEPT
        !.enum = EnumLiterals(enum.value, allowEnumOneOf /\ allowOneOf)]

-----------------------------------------------------------------------------
(* File converter *)

\* ".jsonschema", the suffix of every document name
Extension == <<Dot, "jsonschema">>

\* a CodeGeneratorResponse_File.  content is the node handed to
\* json.MarshalIndent, which the text is a function of; protoFileName is the
\* file convertFile was converting (its log line names it for every document).
Document(name, node, protoFileName) ==
    [name |-> name \o Extension, content |-> node, protoFileName |-> protoFileName]

\* what convertFile returns, and the descriptors as it leaves them
Converted(response, err, heap) == [response |-> response, err |-> err, heap |-> heap]

\* convertFile, "Generate standalone ENUMs"
RECURSIVE convertEnums(_, _)
convertEnums(enumType, protoFileName) ==
    IF enumType = <<>> THEN <<>>
    ELSE <<Document(Head(enumType).name, convertEnumType(Head(enumType)), protoFileName)>>
         \o convertEnums(Tail(enumType), protoFileName)

\* convertFile: the enums of the file are appended to the message's own
AppendFileEnums(heap, msg, enumType) ==
    [heap EXCEPT ![msg].enumType = @ \o enumType]

\* convertFile, the loop: the result so far after message msg was converted to
\* recursed
MessageAdded(so, file, recursed, name) ==
    IF recursed.err # NoError
    THEN Converted(<<>>, recursed.err, recursed.heap)
    ELSE Converted(Append(so.response, Document(name, recursed.node, file.name)),
                   NoError, recursed.heap)

\* convertFile, the loop over file.GetMessageType() from message i on; so is
\* the result so far
RECURSIVE convertMessages(_, _, _, _)
convertMessages(file, pkg, i, so) ==
    IF i > Len(file.messageType) \/ so.err # NoError THEN so
    ELSE convertMessages(file, pkg, i + 1,
             MessageAdded(so, file,
                 convertMessageType(pkg, file.messageType[i],
                     AppendFileEnums(so.heap, file.messageType[i], file.enumType), 1),
                 so.heap[file.messageType[i]].name))

\* convertFile, "Otherwise process MESSAGES": found is what
\* relativelyLookupPackage returned
ConvertPackage(file, heap, found) ==
    IF ~found.ok THEN Converted(<<>>, ErrNoSuchPackage, heap)
    ELSE convertMessages(file, found.pkg, 1, Converted(<<>>, NoError, heap))

convertFile(file, heap) ==
    IF Len(file.messageType) = 0
    THEN Converted(convertEnums(file.enumType, file.name), NoError, heap)
    ELSE ConvertPackage(file, heap,
                        relativelyLookupPackage(globalPkg, RootPkg, file.package))

-----------------------------------------------------------------------------
(* Configuration *)

Config(anv, deoo, doo, dap, dbas, panicked) ==
    [allowNullValues |-> anv, disallowEnumOneOf |-> deoo, disallowOneOf |-> doo,
     disallowAdditionalProperties |-> dap, disallowBigIntsAsStrings |-> dbas,
     panic |-> panicked]

\* the words the switch of commandLineParameter knows, and one it does not
ParameterWords ==
    {"allow_null_values", "debug", "disallow_enum_one_of", "disallow_one_of",
     "disallow_additional_properties", "disallow_bigints_as_strings", "other"}

\* commandLineParameter, the body of the loop: one word of the parameter string
commandLineParameter(cfg, word) ==
    IF word = <<"allow_null_values">> THEN [cfg EXCEPT !.allowNullValues = TRUE]
    ELSE IF word = <<"disallow_enum_one_of">> THEN [cfg EXCEPT !.disallowEnumOneOf = TRUE]
    ELSE IF word = <<"disallow_one_of">>
    THEN IF cfg.allowNullValues
         THEN [cfg EXCEPT !.panic = TRUE]
         ELSE [cfg EXCEPT !.disallowOneOf = TRUE]
    ELSE IF word = <<"disallow_additional_properties">>
    THEN [cfg EXCEPT !.disallowAdditionalProperties = TRUE]
    ELSE IF word = <<"disallow_bigints_as_strings">>
    THEN [cfg EXCEPT !.disallowBigIntsAsStrings = TRUE]
    ELSE cfg

-----------------------------------------------------------------------------
(* The descriptors the model runs on *)

\* all sequences over S of length at most n
SeqsUpTo(S, n) == UNION {[1..k -> S] : k \in 0..n}

EnumE == Enum(<<"E">>, <<EnumValue("FOO", 0), EnumValue("BAR", 1)>>)
\* its name ends in the name of EnumE
EnumXE == Enum(<<"X", "E">>, <<EnumValue("FIZZ", 2)>>)
EnumG == Enum(<<"G">>, <<EnumValue("BUZZ", 3)>>)

\* the message descriptors, by id, before any conversion has touched them
Descriptors ==
    [A |-> Message(<<"A">>,
                   <<Field("field1", TYPE_INT32, <<>>, LABEL_REQUIRED),
                     Field("field2", TYPE_STRING, <<>>, LABEL_REPEATED)>>,
                   <<>>, <<>>),
     B |-> Message(<<"B">>,
                   <<Field("ok", TYPE_BOOL, <<>>, LABEL_OPTIONAL),
                     Field("gone", TYPE_MESSAGE, <<Dot, "p", Dot, "Z">>, LABEL_OPTIONAL)>>,
                   <<>>, <<>>),
     C |-> Message(<<"C">>,
                   <<Field("choice", TYPE_ENUM, <<Dot, "p", Dot, "C", Dot, "E">>, LABEL_OPTIONAL),
                     Field("big", TYPE_INT64, <<>>, LABEL_OPTIONAL),
                     Field("a", TYPE_MESSAGE, <<Dot, "p", Dot, "A">>, LABEL_REQUIRED),
                     Field("inner", TYPE_MESSAGE, <<"C", Dot, "I">>, LABEL_REPEATED),
                     Field("at", TYPE_MESSAGE, TimestampName, LABEL_OPTIONAL)>>,
                   <<"I">>, <<EnumE, EnumXE>>),
     I |-> Message(<<"I">>,
                   <<Field("kinds", TYPE_ENUM, <<Dot, "p", Dot, "C", Dot, "X", "E">>,
                           LABEL_REPEATED)>>,
                   <<>>, <<>>),
     D |-> Message(<<"D">>,
                   <<Field("flag", TYPE_BOOL, <<>>, LABEL_OPTIONAL)>>,
                   <<>>, <<>>),
     R |-> Message(<<"R">>,
                   <<Field("next", TYPE_MESSAGE, <<Dot, "q", Dot, "R">>, LABEL_OPTIONAL)>>,
                   <<>>, <<>>),
     X |-> Message(<<"X">>,
                   <<Field("pick", TYPE_ENUM, <<Dot, "p", Dot, "X", "E">>, LABEL_OPTIONAL)>>,
                   <<>>, <<EnumXE, EnumE>>)]

FileA == File("a.proto", <<"p">>, <<"A">>, <<>>)
\* its message refers to a type that no file declares
FileB == File("b.proto", <<"p">>, <<"B">>, <<EnumG>>)
\* its message refers to the message of a.proto
FileC == File("c.proto", <<"p">>, <<"C">>, <<>>)
\* no package
FileD == File("d.proto", <<>>, <<"D">>, <<>>)
\* no message, two enums
FileE == File("e.proto", <<"p">>, <<>>, <<EnumE, EnumXE>>)
\* no message, one enum
FileG == File("g.proto", <<"q">>, <<>>, <<EnumG>>)
\* its message refers to itself
FileR == File("r.proto", <<"q">>, <<"R">>, <<>>)
FileX == File("x.proto", <<"p", Dot, "s">>, <<"X">>, <<EnumG>>)

FileCatalogue == {FileA, FileB, FileC, FileD, FileE, FileG, FileR, FileX}

\* the file as the request declared it (conversion replaces a file's enum list)
Declared(name) == CHOOSE f \in FileCatalogue : f.name = name

\* the descriptor forests of the requests
Forests ==
    {<<FileA>>, <<FileC>>, <<FileD>>, <<FileE>>, <<FileR>>, <<FileX>>,
     <<FileA, FileB>>, <<FileB, FileA>>, <<FileA, FileC>>, <<FileC, FileA>>,
     <<FileA, FileD>>, <<FileE, FileG>>, <<FileG, FileE>>, <<FileA, FileE>>,
     <<FileX, FileE>>, <<FileA, FileR>>, <<FileA, FileB, FileC>>,
     <<FileA, FileD, FileC>>, <<FileC, FileB, FileA>>}

FileNames(forest) == {forest[i].name : i \in 1..Len(forest)}

\* the target lists of a request on forest: its files in any order, with
\* repetitions, and a file the forest does not hold
Targets(forest) == SeqsUpTo(FileNames(forest) \cup {"absent.proto"}, MaxTargets)

\* strings.Join(words, ",")
RECURSIVE Join(_)
Join(words) ==
    IF words = <<>> THEN <<>>
    ELSE IF Len(words) = 1 THEN <<words[1]>>
    ELSE <<words[1], Comma>> \o Join(Tail(words))

\* the parameter strings of a request
Parameters == {Join(ws) : ws \in SeqsUpTo(ParameterWords, MaxParams)}

-----------------------------------------------------------------------------
(* Session driver *)

NoResponse == [file |-> <<>>, error |-> NoError]
\* no converter call made
NoCall ==
    [op |-> "none", curPkg |-> NilPkg, msg |-> NilDesc,
     desc |-> Field("", TYPE_UNKNOWN, <<>>, LABEL_OPTIONAL),
     enum |-> Enum(<<>>, <<>>), name |-> <<>>]
NoReturn == [node |-> NewType, err |-> NoError, found |-> NotFound]

\* main: flag.Parse() has set the five flags to what the command line names
Init ==
    /\ allowNullValues \in BOOLEAN
    /\ disallowEnumOneOf \in BOOLEAN
    /\ disallowOneOf \in BOOLEAN
    /\ disallowAdditionalProperties \in BOOLEAN
    /\ disallowBigIntsAsStrings \in BOOLEAN
    /\ globalPkg = EmptyTree
    /\ msgs = Descriptors
    /\ protoFile = <<>>
    /\ fileToGenerate = <<>>
    /\ parameter = <<>>
    /\ enumDescriptors = <<>>
    /\ res = NoResponse
    /\ idx = 0
    /\ converted = <<>>
    /\ pc = "main"
    /\ call = NoCall
    /\ ret = NoReturn

\* convertFrom: the request is read and commandLineParameter starts on its parameter
ConvertFrom ==
    /\ pc = "main"
    /\ \E p \in Parameters : parameter' = Split(p, Comma)
    /\ pc' = "parameters"
    /\ UNCHANGED <<flags, globalPkg, msgs, protoFile, fileToGenerate,
                   enumDescriptors, res, idx, converted, call, ret>>

\* commandLineParameter: one turn of its loop; after the last, convert is called
CommandLineParameter ==
    /\ pc = "parameters"
    /\ LET cfg == commandLineParameter(
                      Config(allowNullValues, disallowEnumOneOf, disallowOneOf,
                             disallowAdditionalProperties, disallowBigIntsAsStrings,
                             FALSE),
                      Head(parameter))
       IN /\ allowNullValues' = cfg.allowNullValues
          /\ disallowEnumOneOf' = cfg.disallowEnumOneOf
          /\ disallowOneOf' = cfg.disallowOneOf
          /\ disallowAdditionalProperties' = cfg.disallowAdditionalProperties
          /\ disallowBigIntsAsStrings' = cfg.disallowBigIntsAsStrings
          /\ pc' = IF cfg.panic THEN "panic"
                   ELSE IF Tail(parameter) = <<>> THEN "convert"
                   ELSE "parameters"
    /\ parameter' = Tail(parameter)
    /\ UNCHANGED <<globalPkg, msgs, protoFile, fileToGenerate,
                   enumDescriptors, res, idx, converted, call, ret>>

\* convert is entered with the forest and the target list of the request
Convert ==
    /\ pc = "convert"
    /\ \E forest \in Forests :
         /\ protoFile' = forest
         /\ \E targets \in Targets(forest) : fileToGenerate' = targets
    /\ idx' = 1
    /\ pc' = "register"
    /\ UNCHANGED <<flags, globalPkg, msgs, parameter, enumDescriptors, res,
                   converted, call, ret>>

\* registerType for every message of file, in order
RECURSIVE registerFile(_, _, _, _)
registerFile(tree, heap, file, i) ==
    IF i > Len(file.messageType) THEN tree
    ELSE registerFile(registerType(tree, heap, file.package, file.messageType[i]),
                      heap, file, i + 1)

\* convert, first loop, one file: its messages are registered, its enums gathered
RegisterFile ==
    /\ pc = "register"
    /\ globalPkg' = registerFile(globalPkg, msgs, protoFile[idx], 1)
    /\ enumDescriptors' = enumDescriptors \o protoFile[idx].enumType
    /\ IF idx = Len(protoFile)
       THEN idx' = 1 /\ pc' = "files"
       ELSE idx' = idx + 1 /\ pc' = "register"
    /\ UNCHANGED <<flags, msgs, protoFile, fileToGenerate, parameter, res,
                   converted, call, ret>>

\* generateTargets that keeps the first target only
generateTargetsFirst ==
    IF fileToGenerate = <<>> THEN {} ELSE {fileToGenerate[1]}

\* generateTargets
generateTargets == {fileToGenerate[i] : i \in 1..Len(fileToGenerate)}

\* convert, second loop: the pc after the file at idx
AfterFile == IF idx = Len(protoFile) THEN "done" ELSE "files"

\* convert, second loop, a file that is no target
SkipFile ==
    /\ pc = "files"
    /\ protoFile[idx].name \notin generateTargets
    /\ idx' = idx + 1
    /\ pc' = AfterFile
    /\ UNCHANGED <<flags, globalPkg, msgs, protoFile, fileToGenerate, parameter,
                   enumDescriptors, res, converted, call, ret>>

\* convert, second loop: what follows the return of convertFile(file)
FileConverted(file, got) ==
    /\ protoFile' = [protoFile EXCEPT ![idx] = file]
    /\ msgs' = got.heap
    /\ converted' = Append(converted, file.name)
    /\ IF got.err = StackOverflow
       THEN pc' = "crashed" /\ UNCHANGED <<res, idx>>
       ELSE IF got.err # NoError
       THEN /\ res' = [res EXCEPT !.error = got.err]
            /\ pc' = "done"
            /\ UNCHANGED idx
       ELSE /\ res' = [res EXCEPT !.file = @ \o got.response]
            /\ idx' = idx + 1
            /\ pc' = AfterFile

\* the file at idx with its enum list replaced by the gathered one
Swapped == [protoFile[idx] EXCEPT !.enumType = enumDescriptors]

\* convert, second loop, a target: its enum list is replaced by the gathered
\* one and convertFile runs on it
ConvertFile ==
    /\ pc = "files"
    /\ protoFile[idx].name \in generateTargets
    /\ FileConverted(Swapped, convertFile(Swapped, msgs))
    /\ UNCHANGED <<flags, globalPkg, fileToGenerate, parameter, enumDescriptors,
                   call, ret>>

Next ==
    \/ ConvertFrom
    \/ CommandLineParameter
    \/ Convert
    \/ RegisterFile
    \/ SkipFile
    \/ ConvertFile

Spec == Init /\ [][Next]_vars

-----------------------------------------------------------------------------
(* The converter on its own: one call of convertField, convertMessageType or *)
(* convertEnumType, in a process whose registry holds ConverterForest        *)

ConverterForest == <<FileA, FileB, FileC, FileD, FileE, FileG, FileR, FileX>>

\* the forests the registry is built from: every file, and two forests that
\* leave packages and messages out
ConverterForests == {ConverterForest, <<FileX, FileC>>, <<FileD, FileR>>}

\* the first loop of convert run over forest
RECURSIVE registerForest(_, _, _)
registerForest(tree, heap, forest) ==
    IF forest = <<>> THEN tree
    ELSE registerForest(registerFile(tree, heap, Head(forest), 1), heap, Tail(forest))

\* the type names of the enum fields tried
EnumTypeNames ==
    {<<Dot, "p", Dot, "C", Dot, "E">>, <<Dot, "p", Dot, "C", Dot, "X", "E">>,
     <<Dot, "q", Dot, "G">>}

\* the type names of the message fields tried
MessageTypeNames ==
    {TimestampName, <<Dot, "p", Dot, "A">>, <<"A">>, <<"C", Dot, "I">>,
     <<Dot, "p", Dot, "Z">>, <<Dot, "q", Dot, "R">>, <<Dot, "p", Dot, "C">>}

\* the field descriptors tried
FieldInputs ==
    {Field("f", k, <<>>, l) : k \in ScalarKinds \cup {TYPE_UNKNOWN}, l \in Labels}
    \cup {Field("f", TYPE_ENUM, n, l) : n \in EnumTypeNames, l \in Labels}
    \cup {Field("f", k, n, l) : k \in MessageKinds, n \in MessageTypeNames, l \in Labels}

\* the enclosing messages tried: without enums, and with the same two enums
\* in either order
EnclosingInputs == {"A", "C", "X"}

\* the package contexts tried: every node of the registry
PackageInputs == DOMAIN globalPkg

\* the names looked up: absolute and relative, of messages at the root, in a
\* package, in a package of a package and nested in a message, and names
\* that nothing bears
LookupNames ==
    {<<Dot, "p", Dot, "A">>, <<"A">>, <<"p", Dot, "A">>, <<Dot, "A">>,
     <<"C", Dot, "I">>, <<Dot, "p", Dot, "C", Dot, "I">>, <<"I">>,
     <<"C", Dot, "Z">>, <<"X">>, <<"s", Dot, "X">>, <<"p", Dot, "s", Dot, "X">>,
     <<Dot, "s", Dot, "X">>, <<"D">>, <<Dot, "D">>, <<"q", Dot, "R">>, <<"R">>,
     <<"Z">>, <<"s">>, <<>>}

EnumInputs == {EnumE, EnumXE, EnumG}

ConverterInit ==
    /\ allowNullValues \in BOOLEAN
    /\ disallowEnumOneOf \in BOOLEAN
    /\ disallowOneOf \in BOOLEAN
    /\ disallowAdditionalProperties \in BOOLEAN
    /\ disallowBigIntsAsStrings \in BOOLEAN
    /\ \E forest \in ConverterForests :
         /\ globalPkg = registerForest(EmptyTree, Descriptors, forest)
         /\ protoFile = forest
    /\ msgs = Descriptors
    /\ fileToGenerate = <<>>
    /\ parameter = <<>>
    /\ enumDescriptors = <<>>
    /\ res = NoResponse
    /\ idx = 0
    /\ converted = <<>>
    /\ pc = "converter"
    /\ call = NoCall
    /\ ret = NoReturn

\* the call returned got
ConverterReturned(got) ==
    /\ ret' = [node |-> got.node, err |-> got.err, found |-> NotFound]
    /\ msgs' = got.heap
    /\ pc' = "returned"

CallConvertField ==
    /\ pc = "converter"
    /\ \E curPkg \in PackageInputs, desc \in FieldInputs, msg \in EnclosingInputs :
         /\ call' = [NoCall EXCEPT !.op = "convertField", !.curPkg = curPkg,
                                   !.desc = desc, !.msg = msg]
         /\ ConverterReturned(convertField(curPkg, desc, msg, msgs, 0))
    /\ UNCHANGED <<flags, globalPkg, protoFile, fileToGenerate, parameter,
                   enumDescriptors, res, idx, converted>>

CallConvertMessageType ==
    /\ pc = "converter"
    /\ \E curPkg \in PackageInputs, msg \in DOMAIN Descriptors :
         /\ call' = [NoCall EXCEPT !.op = "convertMessageType", !.curPkg = curPkg,
                                   !.msg = msg]
         /\ ConverterReturned(convertMessageType(curPkg, msg, msgs, 1))
    /\ UNCHANGED <<flags, globalPkg, protoFile, fileToGenerate, parameter,
                   enumDescriptors, res, idx, converted>>

CallConvertEnumType ==
    /\ pc = "converter"
    /\ \E enum \in EnumInputs :
         /\ call' = [NoCall EXCEPT !.op = "convertEnumType", !.enum = enum]
         /\ ConverterReturned(Returned(convertEnumType(enum), NoError, msgs))
    /\ UNCHANGED <<flags, globalPkg, protoFile, fileToGenerate, parameter,
                   enumDescriptors, res, idx, converted>>

\* curPkg.lookupType(name)
CallLookupType ==
    /\ pc = "converter"
    /\ \E curPkg \in PackageInputs, name \in LookupNames :
         /\ call' = [NoCall EXCEPT !.op = "lookupType", !.curPkg = curPkg,
                                   !.name = name]
         /\ ret' = [NoReturn EXCEPT !.found = lookupType(globalPkg, msgs, curPkg, name)]
    /\ pc' = "returned"
    /\ UNCHANGED <<flags, globalPkg, msgs, protoFile, fileToGenerate, parameter,
                   enumDescriptors, res, idx, converted>>

ConverterNext ==
    \/ CallConvertField
    \/ CallConvertMessageType
    \/ CallConvertEnumType
    \/ CallLookupType

ConverterSpec == ConverterInit /\ [][ConverterNext]_vars

-----------------------------------------------------------------------------
(* Properties of the session (specification Spec) *)

\* the names in the target list
TargetNames == {fileToGenerate[i] : i \in 1..Len(fileToGenerate)}

\* the names of the files of the forest, in forest order
ForestNames == [i \in 1..Len(protoFile) |-> protoFile[i].name]

\* the place of the file called name in the forest
ForestIndex(name) == CHOOSE i \in 1..Len(protoFile) : protoFile[i].name = name

SessionFailed == pc = "done" /\ res.error # NoError
SessionSucceeded == pc = "done" /\ res.error = NoError

\* C1: a session that ends with an error carries no document, also when
\* files converted before the failing one had produced documents.
C1_AllOrNothing == SessionFailed => res.file = <<>>

\* the target list names files of the forest only, each once
TargetsAreForestFiles ==
    /\ \A i \in 1..Len(fileToGenerate) : fileToGenerate[i] \in FileNames(protoFile)
    /\ \A i, j \in 1..Len(fileToGenerate) : fileToGenerate[i] = fileToGenerate[j] => i = j

\* C2 as claimed: the files are converted in the order of the target list.
C2_TargetOrder ==
    (SessionSucceeded /\ TargetsAreForestFiles) => converted = fileToGenerate

IsTarget(name) == name \in TargetNames

\* some node of the registry holds msg under its name
Registered(msg) ==
    \E n \in DOMAIN globalPkg :
        /\ msgs[msg].name \in DOMAIN globalPkg[n].types
        /\ globalPkg[n].types[msgs[msg].name] = msg

\* C2 as amended: the session converts exactly the files of the forest that
\* the target list names, each once and in forest order; the documents come
\* in that order; every message of every file of the forest, targeted or
\* not, is registered; no document comes from a file that is no target.
C2_ForestOrder ==
    SessionSucceeded =>
        /\ converted = SelectSeq(ForestNames, IsTarget)
        /\ \A i \in 1..Len(res.file) : IsTarget(res.file[i].protoFileName)
        /\ \A i, j \in 1..Len(res.file) :
              i <= j => ForestIndex(res.file[i].protoFileName)
                        <= ForestIndex(res.file[j].protoFileName)
        /\ \A i \in 1..Len(protoFile) :
              \A k \in 1..Len(protoFile[i].messageType) :
                  Registered(protoFile[i].messageType[k])

\* two targets given in the reverse of their forest order, both converted to
\* documents, next to a forest file that is no target
C2_Witness ==
    /\ SessionSucceeded
    /\ Len(protoFile) = 3
    /\ fileToGenerate = <<protoFile[3].name, protoFile[1].name>>
    /\ converted = <<protoFile[1].name, protoFile[3].name>>
    /\ Len(res.file) = 2
    /\ Len(protoFile[2].messageType) > 0

\* a state in which files are registered or converted, or the session is over
Converting == pc \in {"convert", "register", "files", "done", "crashed"}

\* C3: no conversion runs with allow_null_values and disallow_one_of both on.
C3_ConflictIsFatal == Converting => ~(allowNullValues /\ disallowOneOf)

\* the names of the documents that came from the file called name
DocumentNamesOf(name) ==
    LET From(d) == d.protoFileName = name
        docs == SelectSeq(res.file, From)
    IN [i \in 1..Len(docs) |-> docs[i].name]

\* the names of the documents of the enums that the file called name declares
DeclaredEnumDocuments(name) ==
    [i \in 1..Len(Declared(name).enumType) |->
        Declared(name).enumType[i].name \o <<Dot, "jsonschema">>]

\* C4: a targeted file without messages yields one document per enum it
\* declares, <EnumName>.jsonschema, in declaration order, whatever the other
\* files of the forest declare.
C4_EnumDocuments ==
    SessionSucceeded =>
        \A i \in 1..Len(protoFile) :
            (IsTarget(protoFile[i].name) /\ Declared(protoFile[i].name).messageType = <<>>)
            => DocumentNamesOf(protoFile[i].name) = DeclaredEnumDocuments(protoFile[i].name)

-----------------------------------------------------------------------------
(* Properties of the converter (specification ConverterSpec) *)

FieldReturned == pc = "returned" /\ call.op = "convertField" /\ ret.err = NoError
MessageReturned == pc = "returned" /\ call.op = "convertMessageType" /\ ret.err = NoError

\* a converter returned a node
NodeReturned ==
    /\ pc = "returned"
    /\ call.op \in {"convertField", "convertMessageType", "convertEnumType"}
    /\ ret.err = NoError

AllFlagsOff ==
    /\ ~allowNullValues
    /\ ~disallowEnumOneOf
    /\ ~disallowOneOf
    /\ ~disallowAdditionalProperties
    /\ ~disallowBigIntsAsStrings

OnlyAllowNullValues ==
    /\ allowNullValues
    /\ ~disallowEnumOneOf
    /\ ~disallowOneOf
    /\ ~disallowAdditionalProperties
    /\ ~disallowBigIntsAsStrings

\* a node and every node below it: its items and its properties
RECURSIVE Nodes(_)
Nodes(n) ==
    {n}
    \cup UNION {Nodes(n.items[i]) : i \in 1..Len(n.items)}
    \cup UNION {Nodes(n.properties[k]) : k \in DOMAIN n.properties}

\* C5: with disallow_one_of set, no node of a schema that convertField,
\* convertMessageType or convertEnumType returns (the node itself, items
\* nodes, property nodes) carries a one-of union, and each carries a bare
\* type, whatever the field kind, the label and the other flags.
C5_NoOneOfAnywhere ==
    (NodeReturned /\ disallowOneOf)
    => \A n \in Nodes(ret.node) : n.oneOf = <<>> /\ n.type # ""

\* a message with an enum field, a 64-bit integer, a nested message, an array
\* of messages and a timestamp is converted with disallow_one_of set and the
\* flags on that ask for unions
C5_Witness ==
    /\ MessageReturned
    /\ call.msg = "C"
    /\ disallowOneOf /\ allowNullValues /\ ~disallowEnumOneOf /\ ~disallowBigIntsAsStrings
    /\ Cardinality(Nodes(ret.node)) > 5

\* the JSON type of a scalar kind
JsonTypeOf(kind) ==
    IF kind \in FloatKinds THEN "number"
    ELSE IF kind \in Int32Kinds \cup Int64Kinds THEN "integer"
    ELSE IF kind \in StringKinds THEN "string"
    ELSE "boolean"

ScalarFieldReturned ==
    FieldReturned /\ call.desc.type \in ScalarKinds /\ call.desc.label # LABEL_REPEATED

\* what C6 says of a scalar field's node
BareOrNullable(node, kind) ==
    /\ AllFlagsOff => node.type = JsonTypeOf(kind) /\ node.oneOf = <<>>
    /\ OnlyAllowNullValues => node.oneOf = <<"null", JsonTypeOf(kind)>>

\* C6 as claimed: every non-repeated scalar field is a bare type with the
\* flags off, and a union of null and the type with only allow_null_values on.
C6_EveryScalarKind ==
    ScalarFieldReturned => BareOrNullable(ret.node, call.desc.type)

\* C6 as amended: that holds for every scalar kind but the 64-bit integers; a
\* 64-bit integer is the union of integer and string with the flags off, and
\* of integer, string and null with only allow_null_values on, without bare type.
C6_ScalarKinds ==
    ScalarFieldReturned =>
        IF call.desc.type \in Int64Kinds
        THEN /\ AllFlagsOff =>
                    ret.node.type = "" /\ ret.node.oneOf = <<"integer", "string">>
             /\ OnlyAllowNullValues =>
                    ret.node.type = "" /\ ret.node.oneOf = <<"integer", "string", "null">>
        ELSE BareOrNullable(ret.node, call.desc.type)

C6_Witness ==
    /\ ScalarFieldReturned
    /\ call.desc.type = TYPE_BYTES
    /\ OnlyAllowNullValues
    /\ Len(ret.node.oneOf) = 2

\* C7: a non-repeated 64-bit integer field is, with one-of enabled, a union
\* without bare type whose members are integer, then string iff
\* disallow_bigints_as_strings is unset, then null iff allow_null_values is
\* set; with disallow_one_of set it is a bare integer without union.
C7_Int64 ==
    (FieldReturned /\ call.desc.type \in Int64Kinds /\ call.desc.label # LABEL_REPEATED)
    => IF disallowOneOf
       THEN ret.node.type = "integer" /\ ret.node.oneOf = <<>>
       ELSE /\ ret.node.type = ""
            /\ ret.node.oneOf[1] = "integer"
            /\ Len(ret.node.oneOf) = 1 + (IF disallowBigIntsAsStrings THEN 0 ELSE 1)
                                       + (IF allowNullValues THEN 1 ELSE 0)
            /\ ~disallowBigIntsAsStrings => ret.node.oneOf[2] = "string"
            /\ allowNullValues => ret.node.oneOf[Len(ret.node.oneOf)] = "null"

C7_Witness ==
    /\ FieldReturned
    /\ call.desc.type = TYPE_SFIXED64
    /\ call.desc.label = LABEL_REQUIRED
    /\ ~disallowOneOf /\ ~disallowBigIntsAsStrings /\ allowNullValues
    /\ Len(ret.node.oneOf) = 3

\* the enums of the enclosing message whose name the field's type name ends in
EnclosingEnums == msgs[call.msg].enumType
Matches ==
    {i \in 1..Len(EnclosingEnums) : HasSuffix(call.desc.typeName, EnclosingEnums[i].name)}
FirstMatch == EnclosingEnums[CHOOSE i \in Matches : \A j \in Matches : i <= j]

MatchedEnumFieldReturned ==
    FieldReturned /\ call.desc.type = TYPE_ENUM /\ Matches # {}

\* list holds the values of enum in declaration order: each name, followed by
\* its number exactly when enum-one-of is enabled
HoldsValuesOf(list, enum) ==
    IF disallowEnumOneOf
    THEN /\ Len(list) = Len(enum.value)
         /\ \A i \in 1..Len(enum.value) : list[i] = NameLiteral(enum.value[i].name)
    ELSE /\ Len(list) = 2 * Len(enum.value)
         /\ \A i \in 1..Len(enum.value) :
               /\ list[2 * i - 1] = NameLiteral(enum.value[i].name)
               /\ list[2 * i] = NumberLiteral(enum.value[i].number)

BareString(node) == node.type = "string" /\ node.oneOf = <<>>

\* C8 as claimed: the node of the field holds the list, and is a bare string
\* under disallow_enum_one_of.
C8_FieldNode ==
    MatchedEnumFieldReturned =>
        /\ HoldsValuesOf(ret.node.enum, FirstMatch)
        /\ disallowEnumOneOf => BareString(ret.node)

\* the node that carries the allowed values of an enum field
EnumCarrier ==
    IF call.desc.label = LABEL_REPEATED THEN ret.node.items[1] ELSE ret.node

\* C8 as amended: the node that carries the list (the field's node, or the
\* items node of a repeated field) holds the values of the first matching
\* enum only, and is a bare string under disallow_enum_one_of.
C8_CarrierNode ==
    MatchedEnumFieldReturned =>
        /\ HoldsValuesOf(EnumCarrier.enum, FirstMatch)
        /\ disallowEnumOneOf => BareString(EnumCarrier)

\* a repeated enum field whose type name two enums of the message match: the
\* first declares two values, the other one
C8_Witness ==
    /\ MatchedEnumFieldReturned
    /\ Cardinality(Matches) = 2
    /\ call.desc.label = LABEL_REPEATED
    /\ disallowEnumOneOf
    /\ Len(EnumCarrier.enum) = 2

\* the message of C9 and C10: a required int32 field and a repeated string field
SampleMessageReturned ==
    /\ MessageReturned
    /\ call.msg = "A"
    /\ DOMAIN ret.node.properties = {"field1", "field2"}

\* C9 as claimed: the items of the nullable array are a bare string.
C9_BareItems ==
    (SampleMessageReturned /\ allowNullValues /\ ~disallowOneOf) =>
        /\ ret.node.properties["field1"].oneOf = <<"null", "integer">>
        /\ ret.node.properties["field2"].oneOf = <<"null", "array">>
        /\ ret.node.properties["field2"].items[1].type = "string"
        /\ ret.node.properties["field2"].items[1].oneOf = <<>>

\* C9 as amended: the items of the nullable array are themselves the union of
\* null and string, without bare type.
C9_NullableItems ==
    (SampleMessageReturned /\ allowNullValues /\ ~disallowOneOf) =>
        /\ ret.node.properties["field1"].oneOf = <<"null", "integer">>
        /\ ret.node.properties["field2"].oneOf = <<"null", "array">>
        /\ ret.node.properties["field2"].items[1].type = ""
        /\ ret.node.properties["field2"].items[1].oneOf = <<"null", "string">>

C9_Witness ==
    /\ SampleMessageReturned
    /\ OnlyAllowNullValues
    /\ Len(ret.node.properties["field2"].items) = 1

\* what C10 says of the two properties
SampleProperties ==
    /\ ret.node.properties["field1"].type = "integer"
    /\ ret.node.properties["field2"].type = "array"
    /\ ret.node.properties["field2"].items[1].type = "string"

\* C10 as claimed: the root forbids additional properties.
C10_RootForbids ==
    (SampleMessageReturned /\ AllFlagsOff) =>
        /\ ret.node.type = "object"
        /\ ret.node.additionalProperties = "false"
        /\ SampleProperties

\* C10 as amended: the root allows additional properties.
C10_RootAllows ==
    (SampleMessageReturned /\ AllFlagsOff) =>
        /\ ret.node.type = "object"
        /\ ret.node.additionalProperties = "true"
        /\ SampleProperties

C10_Witness ==
    /\ SampleMessageReturned
    /\ AllFlagsOff
    /\ ret.node.version = Version
    /\ Len(ret.node.properties["field2"].items) = 1

-----------------------------------------------------------------------------
(* Message-typed fields *)

\* convertField returned the node of a field of message type, not a timestamp
MessageFieldReturned ==
    /\ FieldReturned
    /\ call.desc.type \in MessageKinds
    /\ call.desc.typeName # TimestampName

\* C11: the node of a message-typed field (not a Timestamp) whose target
\* resolves forbids additional properties when
\* disallow_additional_properties is set; when it is unset the node forbids
\* them for a required field, allows them for an optional field and says
\* nothing for a repeated field.
C11_AdditionalProperties ==
    MessageFieldReturned =>
        ret.node.additionalProperties =
            IF disallowAdditionalProperties THEN "false"
            ELSE IF call.desc.label = LABEL_REQUIRED THEN "false"
            ELSE IF call.desc.label = LABEL_OPTIONAL THEN "true"
            ELSE ""

\* a repeated field of a message type that resolves, converted with the flag
\* unset: an array of the converted message that says nothing
C11_Witness ==
    /\ MessageFieldReturned
    /\ call.desc.label = LABEL_REPEATED
    /\ ~disallowAdditionalProperties
    /\ Len(ret.node.items) = 1
    /\ ret.node.additionalProperties = ""

\* convertField returned the node of a field of type .google.protobuf.Timestamp
TimestampFieldReturned ==
    /\ FieldReturned
    /\ call.desc.type \in MessageKinds
    /\ call.desc.typeName = TimestampName

\* C12: a field of type .google.protobuf.Timestamp is a bare string of format
\* date-time, without union and without array wrapping, whatever its label
\* and the flags; no descriptor is touched.
C12_TimestampPlain ==
    TimestampFieldReturned =>
        /\ ret.node.type = "string"
        /\ ret.node.format = "date-time"
        /\ ret.node.oneOf = <<>>
        /\ ret.node.items = <<>>
        /\ msgs = Descriptors

-----------------------------------------------------------------------------
(* Shape of the nodes *)

\* C14: no node that convertField, convertMessageType or convertEnumType
\* returns, items nodes and property nodes included, carries both a bare
\* type and a one-of union.
C14_TypeOrUnion ==
    NodeReturned =>
        \A n \in Nodes(ret.node) : ~(n.type # "" /\ n.oneOf # <<>>)

\* C15: for a non-repeated enum field, convertField chooses between union and
\* bare string as convertEnumType does for the enum the field resolves to,
\* and fills the same list of allowed values.
C15_FieldAsStandalone ==
    (MatchedEnumFieldReturned /\ call.desc.label # LABEL_REPEATED) =>
        /\ (ret.node.oneOf = <<>>) <=> (convertEnumType(FirstMatch).oneOf = <<>>)
        /\ ret.node.enum = convertEnumType(FirstMatch).enum

-----------------------------------------------------------------------------
(* Descriptors, termination and packages in the session *)
(* (specification Spec)                                  *)

\* convertFile is about to run on the file at idx
FileConversionStarts == pc = "files" /\ protoFile[idx].name \in generateTargets

\* C13: enrichment does not leak.  When the conversion of a file starts, each
\* of its messages has the enum list the request gave it: what an earlier
\* conversion of the message, from another file or enclosing message, added
\* to the list is gone.
C13_NoLeak ==
    FileConversionStarts =>
        \A k \in 1..Len(protoFile[idx].messageType) :
            msgs[protoFile[idx].messageType[k]].enumType
            = Descriptors[protoFile[idx].messageType[k]].enumType

\* the session can take no further step
SessionStopped == ~(pc \in {"main", "parameters", "convert", "register", "files"})

\* the session is over: a response with the documents or with the first
\* error, or the panic of a conflicting parameter string
SessionOver == pc \in {"done", "panic"}

\* C17: every session terminates with its documents or with the first
\* error, whatever the forest, self-referential messages included.  Every
\* step of a session moves it forward through the parameter words and the
\* files, so it stops; the claim is that where it stops it is over.
C17_Terminates == SessionStopped => SessionOver

\* the package resolution of convertFile for the file, after convert has
\* registered the forest
PackageOf(file) == relativelyLookupPackage(globalPkg, RootPkg, file.package)

\* C18: once the forest is registered, the package of every file with a
\* message resolves from the root to the node that holds the file's messages,
\* and no session ends with a package-not-found error.
C18_RoundTrip ==
    /\ pc \in {"files", "done"} =>
          \A i \in 1..Len(protoFile) :
              \A k \in 1..Len(protoFile[i].messageType) :
                  /\ PackageOf(protoFile[i]).ok
                  /\ msgs[protoFile[i].messageType[k]].name
                        \in DOMAIN globalPkg[PackageOf(protoFile[i]).pkg].types
    /\ pc = "done" => res.error # ErrNoSuchPackage

-----------------------------------------------------------------------------
(* Resolution of type names (specification ConverterSpec) *)

\* pkg and its ancestors, up to and including the root
RECURSIVE Chain(_)
Chain(pkg) ==
    IF globalPkg[pkg].parent = NilPkg THEN <<pkg>>
    ELSE <<pkg>> \o Chain(globalPkg[pkg].parent)

\* the message reached from message desc along the nested types named by path
RECURSIVE NestedAlong(_, _)
NestedAlong(desc, path) ==
    IF path = <<>> THEN Found(desc)
    ELSE LET hits == {i \in 1..Len(msgs[desc].nestedType) :
                         msgs[msgs[desc].nestedType[i]].name = Head(path)}
         IN IF hits = {} THEN NotFound
            ELSE NestedAlong(msgs[desc].nestedType[CHOOSE i \in hits : \A j \in hits : i <= j],
                             Tail(path))

\* relative resolution of the dotted path at pkg: the last component names a
\* message of the package reached; a component before it names a child
\* package if there is one, else a message of the package whose nested types
\* the rest of the path names
RECURSIVE Resolve(_, _)
Resolve(pkg, path) ==
    IF Len(path) = 1
    THEN IF path[1] \in DOMAIN globalPkg[pkg].types
         THEN Found(globalPkg[pkg].types[path[1]])
         ELSE NotFound
    ELSE IF path[1] \in DOMAIN globalPkg[pkg].children
    THEN Resolve(globalPkg[pkg].children[path[1]], Tail(path))
    ELSE IF path[1] \in DOMAIN globalPkg[pkg].types
    THEN NestedAlong(globalPkg[pkg].types[path[1]], Tail(path))
    ELSE NotFound

\* the levels of chain at which path resolves
ResolvingLevels(chain, path) == {i \in 1..Len(chain) : Resolve(chain[i], path).ok}

\* resolution at the first level of chain at which path resolves
FirstResolving(chain, path) ==
    IF ResolvingLevels(chain, path) = {} THEN NotFound
    ELSE Resolve(chain[CHOOSE i \in ResolvingLevels(chain, path) :
                          \A j \in ResolvingLevels(chain, path) : i <= j],
                 path)

LookupReturned == pc = "returned" /\ call.op = "lookupType"

\* C16: lookupType resolves a name that starts with a dot from the root only,
\* the dot stripped; any other name at the context package, then at each
\* ancestor up to the root, and returns what the first level that resolves
\* it gives (child package first, else nested type of a message); it says
\* not-found only when no level resolves the name.
C16_Lookup ==
    LookupReturned =>
        ret.found =
            IF HasPrefix(call.name, <<Dot>>)
            THEN Resolve(RootPkg, Split(Tail(call.name), Dot))
            ELSE FirstResolving(Chain(call.curPkg), Split(call.name, Dot))

\* a relative name looked up from a package of a package that does not
\* resolve there and is found at an ancestor
C16_Witness ==
    /\ LookupReturned
    /\ Len(Chain(call.curPkg)) = 3
    /\ ~HasPrefix(call.name, <<Dot>>)
    /\ ~Resolve(call.curPkg, Split(call.name, Dot)).ok
    /\ ret.found.ok

====
